---- MODULE Spec2Model ----
(***************************************************************************)
(* Model of the MCP tool server: the ToolRegistry (tools/tool_registry.py), *)
(* the two tool handlers (tools/calculator_handler.py,                      *)
(* tools/exptrac_handler.py), their validation models and services, and the *)
(* server adapter wired by main.setup_tools (main.py).                      *)
(*                                                                          *)
(* Conventions.                                                             *)
(*  - A Python dict is a sequence of [key, value] entries with unique keys, *)
(*    in insertion order (dicts iterate in insertion order).                *)
(*  - A Python str built by an f-string is a sequence of string tokens, one *)
(*    token per literal piece or interpolated value, so that the pieces of  *)
(*    a message can be told apart.  The cross mark and check mark emoji of  *)
(*    the source are written "[x]" and "[ok]".                              *)
(*  - A call that raises is a record [ok |-> FALSE, type, msg]; a call that *)
(*    returns is [ok |-> TRUE, val].                                        *)
(***************************************************************************)
EXTENDS Integers, Sequences, FiniteSets, TLC

VARIABLES
  handlers,     \* ToolRegistry.handlers: the name -> handler dict
  registered,   \* history: the handlers whose register() call returned normally, in call order
  started,      \* TRUE once main.setup_tools has run
  alive,        \* FALSE once an exception has escaped a request callback
  hadError,     \* history: TRUE once a call_tool request was answered with an error text
  last          \* the last operation performed and what it returned or raised

vars == <<handlers, registered, started, alive, hadError, last>>

----------------------------------------------------------------------------
(* Bounds *)

\* number of instances of each handler class the library harness may create
MaxInstances == 2

----------------------------------------------------------------------------
(* Python values *)

None == [none |-> TRUE]

\* a value of an Optional that is not None
Some(v) == [none |-> FALSE, v |-> v]

Ok(v) == [ok |-> TRUE, val |-> v]

Raise(type, msg) == [ok |-> FALSE, type |-> type, msg |-> msg]

\* exception classes that `except ValueError` catches: ValueError itself,
\* pydantic's ValidationError and json's JSONDecodeError derive from it
ValueErrorClasses == {"ValueError", "ValidationError", "JSONDecodeError"}

IsValueError(type) == type \in ValueErrorClasses

\* sep.join(items), one token per item and per separator
RECURSIVE Join(_, _)
Join(sep, items) ==
  IF Len(items) = 0 THEN <<>>
  ELSE IF Len(items) = 1 THEN <<items[1]>>
  ELSE <<items[1], sep>> \o Join(sep, Tail(items))

\* dict operations
DictKeys(d) == [i \in 1..Len(d) |-> d[i].key]

DictValues(d) == [i \in 1..Len(d) |-> d[i].value]

DictHas(d, k) == \E i \in 1..Len(d) : d[i].key = k

DictGet(d, k) == d[CHOOSE i \in 1..Len(d) : d[i].key = k].value

DictSet(d, k, v) ==
  IF DictHas(d, k)
  THEN [i \in 1..Len(d) |-> IF d[i].key = k THEN [key |-> k, value |-> v] ELSE d[i]]
  ELSE Append(d, [key |-> k, value |-> v])

----------------------------------------------------------------------------
(* Tool handlers: name and definition *)

HandlerClasses == {"CalculatorToolHandler", "ExpenseTrackerToolHandler"}

\* a handler object: its class and its identity
Handler(cls, id) == [cls |-> cls, id |-> id]

get_name(h) ==
  IF h.cls = "CalculatorToolHandler" THEN "calculate" ELSE "expense_tracker"

\* the fields of CalculatorInput and those declared with Field(...)
CalculatorFields == {"operation", "a", "b", "precision"}

CalculatorRequired == {"operation", "a", "b"}

\* the fields of ExpenseTrackerInput and those declared with Field(...)
ExpenseFields ==
  {"action", "itemName", "itemCost", "itemType", "itemNote", "typeId", "typeName"}

ExpenseRequired == {"action"}

\* BaseModel.model_json_schema(): the properties and the required list
model_json_schema(cls) ==
  IF cls = "CalculatorToolHandler"
  THEN [properties |-> CalculatorFields, required |-> CalculatorRequired]
  ELSE [properties |-> ExpenseFields, required |-> ExpenseRequired]

get_tool_definition(h) ==
  [name |-> get_name(h), inputSchema |-> model_json_schema(h.cls)]

----------------------------------------------------------------------------
(* ToolRegistry *)

\* register whose duplicate check is missing: a later handler overwrites
register_overwrite(d, h) ==
  [ret |-> Ok(None), handlers |-> DictSet(d, get_name(h), h)]

\* register whose duplicate check is missing and that keeps a list, not a dict
register_append(d, h) ==
  [ret |-> Ok(None), handlers |-> Append(d, [key |-> get_name(h), value |-> h])]

\* ToolRegistry.register: the outcome and the dict afterwards
register(d, h) ==
  LET name == get_name(h) IN
  IF DictHas(d, name)
  THEN [ret |-> Raise("ValueError", <<"Tool '", name, "' already registered">>),
        handlers |-> d]
  ELSE [ret |-> Ok(None), handlers |-> DictSet(d, name, h)]

\* get_all_tools that lists the definitions newest first
get_all_tools_reversed(d) ==
  Ok([i \in 1..Len(d) |-> get_tool_definition(DictValues(d)[Len(d) + 1 - i])])

\* ToolRegistry.get_all_tools
get_all_tools(d) ==
  Ok([i \in 1..Len(d) |-> get_tool_definition(DictValues(d)[i])])

\* get_handler whose error message leaves the last registered name out
get_handler_short(d, name) ==
  IF ~DictHas(d, name)
  THEN Raise("ValueError",
             <<"Unknown tool: '", name, "'. Available tools: ">>
               \o Join(", ", SubSeq(DictKeys(d), 1, Len(d) - 1)))
  ELSE Ok(DictGet(d, name))

\* ToolRegistry.get_handler
get_handler(d, name) ==
  IF ~DictHas(d, name)
  THEN Raise("ValueError",
             <<"Unknown tool: '", name, "'. Available tools: ">>
               \o Join(", ", DictKeys(d)))
  ELSE Ok(DictGet(d, name))

\* ToolRegistry.list_tool_names
list_tool_names(d) == DictKeys(d)

\* self.handlers after get_all_tools: the comprehension reads the values of
\* the dict and assigns nothing
handlers_after_get_all_tools(d) == d

\* a lookup that takes the entry out of the dict (self.handlers.pop(name))
handlers_after_get_handler_pop(d, name) == SelectSeq(d, LAMBDA e : e.key # name)

\* self.handlers after get_handler: the method tests membership, reads the
\* keys or the entry, and assigns nothing
handlers_after_get_handler(d, name) == d

----------------------------------------------------------------------------
(* Python floats.                                                           *)
(*                                                                          *)
(* A finite float is a signed rational [k |-> "rat", neg, n, d] with n/d in *)
(* lowest terms (neg with n = 0 is the negative zero).  Operands are taken  *)
(* from values a double holds exactly, so +, -, * and % are exact; a        *)
(* quotient stands for the double nearest to it.  A power that is finite    *)
(* but is not computed digit by digit is the symbolic value                 *)
(* [k |-> "pow", x, y], the double nearest to x^y.                          *)

RECURSIVE GCD(_, _)
GCD(m, n) == IF n = 0 THEN m ELSE GCD(n, m % n)

Float(neg, n, d) ==
  LET g == GCD(n, d) IN [k |-> "rat", neg |-> neg, n |-> n \div g, d |-> d \div g]

\* the float of an integer literal or of an integer number of halves
FromInt(i) == IF i < 0 THEN Float(TRUE, 0 - i, 1) ELSE Float(FALSE, i, 1)

FromHalves(i) == IF i < 0 THEN Float(TRUE, 0 - i, 2) ELSE Float(FALSE, i, 2)

IsZero(x) == x.k = "rat" /\ x.n = 0

\* the numerator with its sign
Signed(x) == IF x.neg THEN 0 - x.n ELSE x.n

Abs(i) == IF i < 0 THEN 0 - i ELSE i

Negate(x) == [x EXCEPT !.neg = ~x.neg]

\* abs(x) > bound, for an integer bound
AbsGreater(x, bound) == x.n > bound * x.d

\* x + y; a zero sum is negative only when both operands are negative zeros
FAdd(x, y) ==
  LET num == Signed(x) * y.d + Signed(y) * x.d IN
  IF num = 0 THEN Float(x.neg /\ y.neg, 0, 1)
  ELSE Float(num < 0, Abs(num), x.d * y.d)

FSub(x, y) == FAdd(x, Negate(y))

FMul(x, y) == Float(x.neg # y.neg, x.n * y.n, x.d * y.d)

\* x / y for y # 0
FDiv(x, y) == Float(x.neg # y.neg, x.n * y.d, x.d * y.n)

\* x % y for y # 0 (float_rem): C fmod, moved to the sign of the divisor
FMod(x, y) ==
  LET X == x.n * y.d
      Y == y.n * x.d
      mod == Float(x.neg, X % Y, x.d * y.d)
  IN IF mod.n # 0
     THEN IF y.neg # mod.neg THEN FAdd(mod, y) ELSE mod
     ELSE Float(y.neg, 0, 1)

\* the number of fraction bits kept for a binary logarithm
LogBits == 10

\* the number of fraction bits of the mantissa the logarithm is computed on
MantBits == 13

RECURSIVE TwoTo(_)
TwoTo(e) == IF e = 0 THEN 1 ELSE 2 * TwoTo(e - 1)

\* the largest e with 2^e <= n/d, for n/d >= 1
RECURSIVE FloorLog2(_, _)
FloorLog2(n, d) == IF n < 2 * d THEN 0 ELSE 1 + FloorLog2(n, 2 * d)

\* the fraction bits of log2 of the mantissa m / 2^MantBits in [1, 2), by
\* repeated squaring
RECURSIVE LogFraction(_, _)
LogFraction(m, bits) ==
  IF bits = 0 THEN 0
  ELSE LET sq == (m * m) \div TwoTo(MantBits) IN
       IF sq >= TwoTo(MantBits + 1)
       THEN TwoTo(bits - 1) + LogFraction(sq \div 2, bits - 1)
       ELSE LogFraction(sq, bits - 1)

\* log2(n/d) * 2^LogBits, rounded down, for n/d > 0
Log2Fixed(n, d) ==
  IF n >= d
  THEN LET e == FloorLog2(n, d)
           m == (n * TwoTo(MantBits)) \div (d * TwoTo(e))
       IN e * TwoTo(LogBits) + LogFraction(m, LogBits)
  ELSE LET e == FloorLog2(d, n) + (IF TwoTo(FloorLog2(d, n)) * n = d THEN 0 ELSE 1)
           m == (n * TwoTo(e) * TwoTo(MantBits)) \div d
       IN LogFraction(m, LogBits) - e * TwoTo(LogBits)

\* the binary exponents at which a double overflows and at which it
\* underflows to zero
MaxExp == 1024

MinExp == -1075

\* the largest binary exponent of a power computed exactly
ExactExp == 20

RECURSIVE IPow(_, _)
IPow(n, e) == IF e = 0 \/ n = 1 THEN 1 ELSE n * IPow(n, e - 1)

IsInteger(x) == x.d = 1

IsOdd(x) == x.d = 1 /\ x.n % 2 = 1

\* math.pow(x, y) for finite x and y
math_pow(x, y) ==
  IF y.n = 0 \/ (x.n = 1 /\ x.d = 1 /\ ~x.neg) THEN Ok(FromInt(1))
  ELSE IF x.n = 0
  THEN IF y.neg THEN Raise("ValueError", <<"math domain error">>)
       ELSE Ok(Float(x.neg /\ IsOdd(y), 0, 1))
  ELSE IF x.neg /\ ~IsInteger(y) THEN Raise("ValueError", <<"math domain error">>)
  ELSE LET exp2 == Signed(y) * Log2Fixed(x.n, x.d)
           unit == TwoTo(LogBits) * y.d
           neg == x.neg /\ IsOdd(y)
           small(m) == m = 1 \/ y.n * (FloorLog2(m, 1) + 1) <= ExactExp
       IN IF exp2 >= MaxExp * unit THEN Raise("OverflowError", <<"math range error">>)
          ELSE IF exp2 < MinExp * unit THEN Ok(Float(neg, 0, 1))
          ELSE IF IsInteger(y) /\ small(x.n) /\ small(x.d)
          THEN IF y.neg THEN Ok(Float(neg, IPow(x.d, y.n), IPow(x.n, y.n)))
               ELSE Ok(Float(neg, IPow(x.n, y.n), IPow(x.d, y.n)))
          ELSE Ok([k |-> "pow", x |-> x, y |-> y])

----------------------------------------------------------------------------
(* round() and str() of floats *)

\* the first k decimal digits of the fraction r/d (r < d), and what is left
RECURSIVE FracDigits(_, _, _)
FracDigits(r, d, k) ==
  IF k = 0 THEN <<>> ELSE <<(r * 10) \div d>> \o FracDigits((r * 10) % d, d, k - 1)

RECURSIVE FracRem(_, _, _)
FracRem(r, d, k) == IF k = 0 THEN r ELSE FracRem((r * 10) % d, d, k - 1)

\* a digit string plus one unit in its last place
RECURSIVE IncDigits(_)
IncDigits(fd) ==
  IF Len(fd) = 0 THEN [fd |-> <<>>, carry |-> 1]
  ELSE LET l == fd[Len(fd)]
           front == SubSeq(fd, 1, Len(fd) - 1)
       IN IF l < 9 THEN [fd |-> Append(front, l + 1), carry |-> 0]
          ELSE [fd |-> Append(IncDigits(front).fd, 0), carry |-> IncDigits(front).carry]

\* the decimal with p fraction digits nearest to n/d, ties to the even digit
RoundDigits(n, d, p) ==
  LET ip == n \div d
      fd == FracDigits(n % d, d, p)
      rem == FracRem(n % d, d, p)
      lastd == IF p = 0 THEN ip % 10 ELSE fd[p]
      up == 2 * rem > d \/ (2 * rem = d /\ lastd % 2 = 1)
  IN IF up THEN [ip |-> ip + IncDigits(fd).carry, fd |-> IncDigits(fd).fd]
     ELSE [ip |-> ip, fd |-> fd]

\* round(x, ndigits): a float with ndigits decimals, or an int when ndigits
\* is None; the rounding of a symbolic power stays symbolic
round(x, ndigits) ==
  IF x.k # "rat" THEN [k |-> "round", x |-> x, ndigits |-> ndigits]
  ELSE IF ndigits = None
  THEN LET r == RoundDigits(x.n, x.d, 0) IN
       [k |-> "int", neg |-> x.neg /\ r.ip # 0, ip |-> r.ip]
  ELSE LET r == RoundDigits(x.n, x.d, ndigits.v) IN
       [k |-> "dec", neg |-> x.neg, ip |-> r.ip, fd |-> r.fd]

\* the most digits str() prints for a float
ReprDigits == 17

RECURSIVE DigitsStr(_)
DigitsStr(fd) == IF Len(fd) = 0 THEN "" ELSE ToString(fd[1]) \o DigitsStr(Tail(fd))

\* a digit string without its trailing zeros, one digit kept
RECURSIVE StripZeros(_)
StripZeros(fd) ==
  IF Len(fd) = 0 THEN <<0>>
  ELSE IF fd[Len(fd)] = 0 THEN StripZeros(SubSeq(fd, 1, Len(fd) - 1))
  ELSE fd

\* the digits of the fraction r/d up to the point where it ends
RECURSIVE ExactDigits(_, _, _)
ExactDigits(r, d, k) ==
  IF k = 0 \/ r = 0 THEN <<>>
  ELSE <<(r * 10) \div d>> \o ExactDigits((r * 10) % d, d, k - 1)

\* str(x) as a format field of an f-string prints it (positional notation:
\* the values met are within 1e-4 .. 1e16)
RECURSIVE str(_)
str(x) ==
  IF x.k = "rat"
  THEN (IF x.neg THEN "-" ELSE "") \o ToString(x.n \div x.d) \o "."
         \o DigitsStr(StripZeros(ExactDigits(x.n % x.d, x.d, ReprDigits)))
  ELSE IF x.k = "dec"
  THEN (IF x.neg THEN "-" ELSE "") \o ToString(x.ip) \o "." \o DigitsStr(StripZeros(x.fd))
  ELSE IF x.k = "int"
  THEN (IF x.neg THEN "-" ELSE "") \o ToString(x.ip)
  ELSE IF x.k = "pow"
  THEN "pow(" \o str(x.x) \o ", " \o str(x.y) \o ")"
  ELSE "round(" \o str(x.x) \o ", "
         \o (IF x.ndigits = None THEN "None" ELSE ToString(x.ndigits.v)) \o ")"

----------------------------------------------------------------------------
(* Raw tool arguments: a mapping from field names to JSON values *)

RNum(f) == [t |-> "num", v |-> f]

RStr(st) == [t |-> "str", s |-> st]

RNull == [t |-> "null"]

\* dict.get(key, default) on a mapping
Get(m, key, default) == IF key \in DOMAIN m THEN m[key] ELSE default

\* the strings the model parses as numbers, with float(s)
NumericStrings == {"0", "2.5"}

ParseFloat(st) == IF st = "0" THEN FromInt(0) ELSE FromHalves(5)

\* one error of a pydantic ValidationError
FieldError(loc, msg) == [loc |-> loc, msg |-> msg]

RECURSIVE ErrorLines(_)
ErrorLines(errs) ==
  IF Len(errs) = 0 THEN <<>>
  ELSE <<errs[1].loc>> \o errs[1].msg \o ErrorLines(Tail(errs))

\* str(ValidationError): the count, the model, then each location and message
ValidationError(model, errs) ==
  Raise("ValidationError",
        <<ToString(Len(errs)), " validation error(s) for ", model>> \o ErrorLines(errs))

\* the model built from the outcomes of its fields, in declaration order: the
\* instance, or the ValidationError that reports every field that failed
Validated(model, results) ==
  IF \E i \in 1..Len(results) : ~results[i].r.ok
  THEN ValidationError(model,
                       [i \in 1..Len(SelectSeq(results, LAMBDA e : ~e.r.ok))
                          |-> FieldError(SelectSeq(results, LAMBDA e : ~e.r.ok)[i].loc,
                                         SelectSeq(results, LAMBDA e : ~e.r.ok)[i].r.msg)])
  ELSE Ok([f \in {results[i].loc : i \in 1..Len(results)}
             |-> results[CHOOSE i \in 1..Len(results) : results[i].loc = f].r.val])

\* a `float` field (lax mode: numbers, and strings that parse as numbers)
validate_float(args, f) ==
  IF f \notin DOMAIN args THEN Raise("missing", <<"Field required">>)
  ELSE IF args[f].t = "num" THEN Ok(args[f].v)
  ELSE IF args[f].t = "str"
  THEN IF args[f].s \in NumericStrings THEN Ok(ParseFloat(args[f].s))
       ELSE Raise("float_parsing",
                  <<"Input should be a valid number, unable to parse string as a number">>)
  ELSE Raise("float_type", <<"Input should be a valid number">>)

\* an `Optional[int]` field with a default (lax mode: integers, floats without
\* a fraction, and strings that parse as integers)
validate_optional_int(args, f, default) ==
  IF f \notin DOMAIN args THEN Ok(default)
  ELSE IF args[f].t = "null" THEN Ok(None)
  ELSE LET x == IF args[f].t = "num" THEN args[f].v ELSE ParseFloat(args[f].s) IN
       IF args[f].t = "str" /\ args[f].s \notin NumericStrings
       THEN Raise("int_parsing",
                  <<"Input should be a valid integer, unable to parse string as an integer">>)
       ELSE IF x.d # 1
       THEN Raise("int_from_float",
                  <<"Input should be a valid integer, got a number with a fractional part">>)
       ELSE Ok(Some(Signed(x)))

\* the ge / le constraints of an integer field (None passes)
check_bounds(r, ge, le) ==
  IF ~r.ok \/ r.val = None THEN r
  ELSE IF r.val.v < ge
  THEN Raise("greater_than_equal",
             <<"Input should be greater than or equal to ", ToString(ge)>>)
  ELSE IF r.val.v > le
  THEN Raise("less_than_equal",
             <<"Input should be less than or equal to ", ToString(le)>>)
  ELSE r

\* an `Optional[str]` field with default None (a str is not coerced from a
\* number)
validate_optional_str(args, f) ==
  IF f \notin DOMAIN args \/ args[f].t = "null" THEN Ok(None)
  ELSE IF args[f].t = "str" THEN Ok(Some(args[f].s))
  ELSE Raise("string_type", <<"Input should be a valid string">>)

----------------------------------------------------------------------------
(* models/calculator_models.py *)

Operations == {"add", "subtract", "multiply", "divide", "power", "modulo"}

\* what values.get('operation') gives when the operation did not validate
NoOperation == "None"

\* the `operation: Operation` field
validate_operation(args) ==
  IF "operation" \notin DOMAIN args THEN Raise("missing", <<"Field required">>)
  ELSE IF args["operation"].t = "str" /\ args["operation"].s \in Operations
  THEN Ok(args["operation"].s)
  ELSE Raise("enum",
             <<"Input should be 'add', 'subtract', 'multiply', 'divide', 'power' or 'modulo'">>)

\* the validator without its modulo branch
validate_division_by_zero_divide_only(v, values) ==
  LET operation == Get(values, "operation", NoOperation) IN
  IF operation = "divide" /\ IsZero(v)
  THEN Raise("ValueError", <<"Cannot divide by zero">>)
  ELSE Ok(v)

\* CalculatorInput.validate_division_by_zero
validate_division_by_zero(v, values) ==
  LET operation == Get(values, "operation", NoOperation) IN
  IF operation = "divide" /\ IsZero(v)
  THEN Raise("ValueError", <<"Cannot divide by zero">>)
  ELSE IF operation = "modulo" /\ IsZero(v)
  THEN Raise("ValueError", <<"Cannot perform modulo with zero divisor">>)
  ELSE Ok(v)

\* the limit of validate_power_limits
PowerLimit == 1000

\* the validator that checks the exponent only
validate_power_limits_exponent_only(v, values) ==
  LET operation == Get(values, "operation", NoOperation) IN
  IF operation = "power" /\ AbsGreater(v, PowerLimit)
  THEN Raise("ValueError",
             <<"Power operation limited to bases and exponents within +-1000">>)
  ELSE Ok(v)

\* CalculatorInput.validate_power_limits
validate_power_limits(v, values) ==
  LET operation == Get(values, "operation", NoOperation)
      a == Get(values, "a", FromInt(0))
  IN IF operation = "power" /\ (AbsGreater(a, PowerLimit) \/ AbsGreater(v, PowerLimit))
     THEN Raise("ValueError",
                <<"Power operation limited to bases and exponents within +-1000">>)
     ELSE Ok(v)

\* the b field: its type, then its validators in the order they are declared
validate_b(args, values) ==
  LET reported(r) == IF r.ok THEN r ELSE [r EXCEPT !.msg = <<"Value error, ">> \o r.msg]
      after_first(first) ==
        IF ~first.ok THEN reported(first)
        ELSE reported(validate_power_limits(first.val, values))
      after_type(typed) ==
        IF ~typed.ok THEN typed
        ELSE after_first(validate_division_by_zero(typed.val, values))
  IN after_type(validate_float(args, "b"))

\* CalculatorInput(**arguments): the fields are validated in declaration
\* order, a validator sees the fields that validated before its own, and all
\* the errors are reported together
CalculatorInput(args) ==
  LET values(operation, a) ==
        [f \in {g \in {"operation", "a"} : IF g = "operation" THEN operation.ok ELSE a.ok}
           |-> IF f = "operation" THEN operation.val ELSE a.val]
      model(operation, a, b, precision) ==
        Validated("CalculatorInput",
                  <<[loc |-> "operation", r |-> operation], [loc |-> "a", r |-> a],
                    [loc |-> "b", r |-> b], [loc |-> "precision", r |-> precision]>>)
      fields(operation, a) ==
        model(operation, a, validate_b(args, values(operation, a)),
              check_bounds(validate_optional_int(args, "precision", Some(2)), 0, 10))
  IN fields(validate_operation(args), validate_float(args, "a"))

----------------------------------------------------------------------------
(* services/calculator_service.py *)

\* the operation symbols (the source's multiplication and division signs are
\* written "x" and "/")
get_operation_symbol(operation) ==
  CASE operation = "add" -> "+"
    [] operation = "subtract" -> "-"
    [] operation = "multiply" -> "x"
    [] operation = "divide" -> "/"
    [] operation = "power" -> "^"
    [] operation = "modulo" -> "%"
    [] OTHER -> "?"

add(a, b) == Ok(FAdd(a, b))

subtract(a, b) == Ok(FSub(a, b))

multiply(a, b) == Ok(FMul(a, b))

divide(a, b) ==
  IF IsZero(b) THEN Raise("ZeroDivisionError", <<"float division by zero">>)
  ELSE Ok(FDiv(a, b))

\* a _power that answers 0.0 where math.pow raises
power_or_zero(a, b) == IF math_pow(a, b).ok THEN math_pow(a, b) ELSE Ok(FromInt(0))

power(a, b) == math_pow(a, b)

modulo(a, b) ==
  IF IsZero(b) THEN Raise("ZeroDivisionError", <<"float modulo">>)
  ELSE Ok(FMod(a, b))

\* the `result: float` field of CalculatorOutput takes an int as a float
to_float(x) ==
  IF x.k = "int" THEN [k |-> "dec", neg |-> x.neg, ip |-> x.ip, fd |-> <<>>] ELSE x

\* CalculatorService.calculate: the CalculatorOutput, or the exception the
\* operation raised (logged and raised again); `calls` lists the service
\* methods entered
calculate(input_data) ==
  LET operation == input_data.operation
      calls == <<"calculate", "_" \o operation>>
      output(rounded_result, expression) ==
        [ret |-> Ok([operation |-> operation,
                     operand_a |-> input_data.a,
                     operand_b |-> input_data.b,
                     result |-> to_float(rounded_result),
                     formatted_result |-> expression \o <<" = ", str(rounded_result)>>,
                     expression |-> expression]),
         calls |-> calls]
      after(result) ==
        IF ~result.ok THEN [ret |-> result, calls |-> calls]
        ELSE output(round(result.val, input_data.precision),
                    <<str(input_data.a), " ", get_operation_symbol(operation), " ",
                      str(input_data.b)>>)
  IN after(CASE operation = "add" -> add(input_data.a, input_data.b)
             [] operation = "subtract" -> subtract(input_data.a, input_data.b)
             [] operation = "multiply" -> multiply(input_data.a, input_data.b)
             [] operation = "divide" -> divide(input_data.a, input_data.b)
             [] operation = "power" -> power(input_data.a, input_data.b)
             [] operation = "modulo" -> modulo(input_data.a, input_data.b))

----------------------------------------------------------------------------
(* tools/calculator_handler.py *)

TextContent(text) == [type |-> "text", text |-> text]

\* CalculatorToolHandler._format_response
calculator_format_response(result) ==
  <<"[ok] Calculation Result:">> \o result.formatted_result
    \o <<"Details:", "- Operation: ", result.operation,
         "- First Number: ", str(result.operand_a),
         "- Second Number: ", str(result.operand_b),
         "- Result: ", str(result.result)>>

\* the except clauses of execute without the final `except Exception`
calculator_except_no_catch_all(exc) ==
  IF IsValueError(exc.type)
  THEN Ok(<<TextContent(<<"[x] Validation Error: ">> \o exc.msg)>>)
  ELSE IF exc.type = "ZeroDivisionError"
  THEN Ok(<<TextContent(<<"[x] Error: Cannot divide by zero">>)>>)
  ELSE exc

\* except clauses that hand a ValueError on to the caller of execute
calculator_except_reraise(exc) ==
  IF IsValueError(exc.type) THEN exc
  ELSE IF exc.type = "ZeroDivisionError"
  THEN Ok(<<TextContent(<<"[x] Error: Cannot divide by zero">>)>>)
  ELSE Ok(<<TextContent(<<"[x] Internal Error: ">> \o exc.msg)>>)

\* the except clauses of CalculatorToolHandler.execute, in order
calculator_except(exc) ==
  IF IsValueError(exc.type)
  THEN Ok(<<TextContent(<<"[x] Validation Error: ">> \o exc.msg)>>)
  ELSE IF exc.type = "ZeroDivisionError"
  THEN Ok(<<TextContent(<<"[x] Error: Cannot divide by zero">>)>>)
  ELSE Ok(<<TextContent(<<"[x] Internal Error: ">> \o exc.msg)>>)

\* CalculatorToolHandler.execute: what it returns or raises, how the try
\* block ended ("returned", or the exception type), and the service methods
\* it entered
calculator_execute(arguments) ==
  LET respond(result) ==
        IF ~result.ret.ok
        THEN [ret |-> calculator_except(result.ret), ended |-> result.ret.type,
              calls |-> result.calls]
        ELSE [ret |-> Ok(<<TextContent(calculator_format_response(result.ret.val))>>),
              ended |-> "returned", calls |-> result.calls]
      try(input_data) ==
        IF ~input_data.ok
        THEN [ret |-> calculator_except(input_data), ended |-> input_data.type,
              calls |-> <<>>]
        ELSE respond(calculate(input_data.val))
  IN try(CalculatorInput(arguments))

----------------------------------------------------------------------------
(* models/expense_models.py *)

ExpenseActions ==
  {"create_expense", "get_all_expenses", "get_expenses_by_type", "create_type",
   "get_all_types"}

\* the `action: ExpenseActionType` field
validate_action(args) ==
  IF "action" \notin DOMAIN args THEN Raise("missing", <<"Field required">>)
  ELSE IF args["action"].t = "str" /\ args["action"].s \in ExpenseActions
  THEN Ok(args["action"].s)
  ELSE Raise("enum",
             <<"Input should be 'create_expense', 'get_all_expenses', 'get_expenses_by_type', 'create_type' or 'get_all_types'">>)

\* ExpenseTrackerInput(**arguments)
ExpenseTrackerInput(args) ==
  Validated("ExpenseTrackerInput",
            <<[loc |-> "action", r |-> validate_action(args)],
              [loc |-> "itemName", r |-> validate_optional_str(args, "itemName")],
              [loc |-> "itemCost", r |-> validate_optional_int(args, "itemCost", None)],
              [loc |-> "itemType", r |-> validate_optional_str(args, "itemType")],
              [loc |-> "itemNote", r |-> validate_optional_str(args, "itemNote")],
              [loc |-> "typeId", r |-> validate_optional_int(args, "typeId", None)],
              [loc |-> "typeName", r |-> validate_optional_str(args, "typeName")]>>)

\* what a response body parses to: a JSON object, the empty object, a list,
\* another JSON value, or nothing (the body is not JSON)
JsonBodies == {"object", "empty_object", "list", "scalar", "not_json"}

IsDict(body) == body \in {"object", "empty_object"}

\* ExpenseTrackerOutput(action, success, message, data): data is Optional[dict]
ExpenseTrackerOutput(action, success, message, data) ==
  IF data # None /\ ~data.v.dict
  THEN ValidationError("ExpenseTrackerOutput",
                       <<FieldError("data", <<"Input should be a valid dictionary">>)>>)
  ELSE Ok([action |-> action, success |-> success, message |-> message, data |-> data])

----------------------------------------------------------------------------
(* services/expense_tracker_service.py *)

\* ExpenseTrackerService.TIMEOUT
TIMEOUT == 10

\* the status codes the remote service is taken to answer with
StatusCodes == {200, 201, 404, 500}

\* the httpx.RequestError subclasses a call is taken to fail with
RequestErrors == {"ConnectError", "ReadTimeout", "UnsupportedProtocol"}

\* an exception of httpx that is not a RequestError (the configured base URL
\* is not a well-formed URL)
OtherErrors == {"InvalidURL"}

\* what one request meets: a response of the remote service, or an exception
\* raised by the httpx call
Remotes ==
  [kind : {"response"}, status : StatusCodes, body : JsonBodies]
    \cup [kind : {"error"}, exc : RequestErrors \cup OtherErrors]

\* one httpx call made with timeout=None
Request_no_timeout(method, path) == [method |-> method, path |-> path, timeout |-> None]

\* one httpx call
Request(method, path) == [method |-> method, path |-> path, timeout |-> Some(TIMEOUT)]

\* response.json()
json(response) ==
  IF response.body = "not_json" THEN Raise("JSONDecodeError", <<"Expecting value">>)
  ELSE Ok(response.body)

\* a parsed body as the data of an outcome
AsData(body) == Some([dict |-> IsDict(body), empty |-> body = "empty_object", json |-> <<body>>])

\* {key: data} if data is a list, else {key: [data]}
Wrapped(key, body) ==
  Some([dict |-> TRUE, empty |-> FALSE,
        json |-> IF body = "list" THEN <<key, body>> ELSE <<key, "[", body, "]">>])

\* the part the five methods share after their request: `created` tells
\* whether 201 counts as success and the body is returned as it is, `key` is
\* the key a retrieved collection is wrapped under
after_request(action, request, remote, created, key, success_message, failure_message) ==
  IF remote.kind = "error" /\ remote.exc \in RequestErrors
  THEN [ret |-> ExpenseTrackerOutput(action, FALSE, <<"Network error: ", remote.exc>>, None),
        http |-> <<request>>]
  ELSE IF remote.kind = "error"
  THEN [ret |-> Raise(remote.exc, <<remote.exc>>), http |-> <<request>>]
  ELSE IF remote.status = 200 \/ (created /\ remote.status = 201)
  THEN LET data == json(remote) IN
       IF ~data.ok THEN [ret |-> data, http |-> <<request>>]
       ELSE [ret |-> ExpenseTrackerOutput(action, TRUE, success_message,
                                          IF created THEN AsData(data.val)
                                          ELSE Wrapped(key, data.val)),
             http |-> <<request>>]
  ELSE [ret |-> ExpenseTrackerOutput(action, FALSE,
                                     failure_message \o <<ToString(remote.status)>>, None),
        http |-> <<request>>]

\* _create_expense whose check of the required fields leaves itemType out
create_expense_unchecked_type(input_data, remote) ==
  IF input_data.itemName = None \/ input_data.itemCost = None
  THEN [ret |-> ExpenseTrackerOutput(input_data.action, FALSE,
                  <<"Missing required fields: itemName, itemCost, and itemType">>, None),
        http |-> <<>>]
  ELSE after_request(input_data.action, Request("POST", <<"/expenses">>), remote, TRUE, "",
                     <<"Expense created successfully">>, <<"Failed to create expense: ">>)

\* ExpenseTrackerService._create_expense
create_expense(input_data, remote) ==
  IF input_data.itemName = None \/ input_data.itemCost = None \/ input_data.itemType = None
  THEN [ret |-> ExpenseTrackerOutput(input_data.action, FALSE,
                  <<"Missing required fields: itemName, itemCost, and itemType">>, None),
        http |-> <<>>]
  ELSE after_request(input_data.action, Request("POST", <<"/expenses">>), remote, TRUE, "",
                     <<"Expense created successfully">>, <<"Failed to create expense: ">>)

\* ExpenseTrackerService._get_all_expenses
get_all_expenses(remote) ==
  after_request("get_all_expenses", Request("GET", <<"/expenses">>), remote, FALSE,
                "expenses", <<"Expenses retrieved successfully">>,
                <<"Failed to retrieve expenses: ">>)

\* ExpenseTrackerService._get_expenses_by_type
get_expenses_by_type(input_data, remote) ==
  IF input_data.typeId = None
  THEN [ret |-> ExpenseTrackerOutput(input_data.action, FALSE,
                                     <<"Missing required field: typeId">>, None),
        http |-> <<>>]
  ELSE after_request(input_data.action,
                     Request("GET", <<"/expenses/type/", ToString(input_data.typeId.v)>>),
                     remote, FALSE, "expenses",
                     <<"Expenses for type ", ToString(input_data.typeId.v),
                       " retrieved successfully">>,
                     <<"Failed to retrieve expenses: ">>)

\* ExpenseTrackerService._create_type
create_type(input_data, remote) ==
  IF input_data.typeName = None
  THEN [ret |-> ExpenseTrackerOutput(input_data.action, FALSE,
                                     <<"Missing required field: typeName">>, None),
        http |-> <<>>]
  ELSE after_request(input_data.action, Request("POST", <<"/types">>), remote, TRUE, "",
                     <<"Type created successfully">>, <<"Failed to create type: ">>)

\* ExpenseTrackerService._get_all_types
get_all_types(remote) ==
  after_request("get_all_types", Request("GET", <<"/types">>), remote, FALSE, "types",
                <<"Types retrieved successfully">>, <<"Failed to retrieve types: ">>)

\* ExpenseTrackerService.handle_action: an exception of the method it routes
\* to is logged and raised again
handle_action(input_data, remote) ==
  LET action == input_data.action IN
  CASE action = "create_expense" -> create_expense(input_data, remote)
    [] action = "get_all_expenses" -> get_all_expenses(remote)
    [] action = "get_expenses_by_type" -> get_expenses_by_type(input_data, remote)
    [] action = "create_type" -> create_type(input_data, remote)
    [] action = "get_all_types" -> get_all_types(remote)
    [] OTHER -> [ret |-> ExpenseTrackerOutput(action, FALSE, <<"Unknown action: ", action>>, None),
                 http |-> <<>>]

----------------------------------------------------------------------------
(* tools/exptrac_handler.py *)

\* ExpenseTrackerToolHandler._format_response
expense_format_response(result) ==
  <<IF result.success THEN "[ok]" ELSE "[x]", " ">> \o result.message
    \o (IF result.data # None /\ ~result.data.v.empty
        THEN <<"Data:">> \o result.data.v.json
        ELSE <<>>)

\* the except clauses of ExpenseTrackerToolHandler.execute, in order
expense_except(exc) ==
  IF IsValueError(exc.type)
  THEN Ok(<<TextContent(<<"[x] Validation Error: ">> \o exc.msg)>>)
  ELSE Ok(<<TextContent(<<"[x] Internal Error: ">> \o exc.msg)>>)

\* ExpenseTrackerToolHandler.execute: what it returns or raises, how the try
\* block ended, the service methods it entered and the requests it sent
expense_execute(arguments, remote) ==
  LET respond(result, calls) ==
        IF ~result.ret.ok
        THEN [ret |-> expense_except(result.ret), ended |-> result.ret.type,
              calls |-> calls, http |-> result.http]
        ELSE [ret |-> Ok(<<TextContent(expense_format_response(result.ret.val))>>),
              ended |-> "returned", calls |-> calls, http |-> result.http]
      try(input_data) ==
        IF ~input_data.ok
        THEN [ret |-> expense_except(input_data), ended |-> input_data.type,
              calls |-> <<>>, http |-> <<>>]
        ELSE respond(handle_action(input_data.val, remote),
                     <<"handle_action", "_" \o input_data.val.action>>)
  IN try(ExpenseTrackerInput(arguments))

----------------------------------------------------------------------------
(* main.py *)

\* AbstractToolHandler.execute, dispatched on the handler's class
execute(h, arguments, remote) ==
  IF h.cls = "CalculatorToolHandler"
  THEN calculator_execute(arguments) @@ [http |-> <<>>]
  ELSE expense_execute(arguments, remote)

\* the handler objects setup_tools creates and registers, in order
SetupHandlers == <<Handler("CalculatorToolHandler", 1)>>

\* the registrations of setup_tools on a new ToolRegistry: the dict and the
\* first exception raised, if any
RECURSIVE register_all(_, _)
register_all(d, hs) ==
  IF Len(hs) = 0 THEN [ret |-> Ok(None), handlers |-> d]
  ELSE LET r == register(d, hs[1]) IN
       IF ~r.ret.ok THEN r ELSE register_all(r.handlers, Tail(hs))

\* list_tools
list_tools(d) == get_all_tools(d)

\* call_tool without its try block: what the registry or the handler raises
\* goes to the caller
call_tool_no_try(d, name, arguments, remote) ==
  LET handler == get_handler(d, name) IN
  IF ~handler.ok
  THEN [ret |-> handler, handler |-> None, ended |-> handler.type, calls |-> <<>>,
        http |-> <<>>]
  ELSE execute(handler.val, arguments, remote) @@ [handler |-> Some(handler.val)]

\* call_tool: the blocks it returns (or what it raises), the handler it
\* dispatched to, how the handler's try block ended, the service methods
\* entered and the requests sent
call_tool(d, name, arguments, remote) ==
  LET handler == get_handler(d, name) IN
  IF ~handler.ok
  THEN [ret |-> IF IsValueError(handler.type)
                THEN Ok(<<TextContent(<<"[x] Error: ">> \o handler.msg)>>)
                ELSE Ok(<<TextContent(<<"[x] Internal Error: ">> \o handler.msg)>>),
        handler |-> None, ended |-> handler.type, calls |-> <<>>, http |-> <<>>]
  ELSE LET answer(result) ==
             IF result.ret.ok THEN result
             ELSE IF IsValueError(result.ret.type)
             THEN [result EXCEPT
                     !.ret = Ok(<<TextContent(<<"[x] Error: ">> \o result.ret.msg)>>)]
             ELSE [result EXCEPT
                     !.ret = Ok(<<TextContent(<<"[x] Internal Error: ">> \o result.ret.msg)>>)]
       IN answer(execute(handler.val, arguments, remote)) @@ [handler |-> Some(handler.val)]

----------------------------------------------------------------------------
(* Inputs *)

\* a field left out of the arguments
Absent == [t |-> "absent"]

\* the arguments mapping with the fields that are not Absent
ArgsOf(choice) == [f \in {g \in DOMAIN choice : choice[g].t # "absent"} |-> choice[f]]

OperationSamples == {Absent, RStr("sqrt")} \cup {RStr(o) : o \in Operations}

ASamples ==
  {Absent, RStr("abc")}
    \cup {RNum(FromInt(i)) : i \in {-1001, -1000, -2, 0, 1000, 1001}}
    \cup {RNum(FromHalves(1))}

BSamples ==
  {Absent, RNull, RStr("0")}
    \cup {RNum(FromInt(i)) : i \in {-1001, -1000, -1, 0, 3, 1000, 1001}}
    \cup {RNum(FromHalves(1))}

PrecisionSamples ==
  {Absent, RNull, RNum(FromHalves(1))} \cup {RNum(FromInt(i)) : i \in {0, 10, 11}}

CalculatorArgs ==
  {ArgsOf([operation |-> o, a |-> a, b |-> b, precision |-> p]) :
     o \in OperationSamples, a \in ASamples, b \in BSamples, p \in PrecisionSamples}

ExpenseArgs ==
  {ArgsOf([action |-> ac, itemName |-> n, itemCost |-> c, itemType |-> ty,
           typeId |-> id, typeName |-> tn]) :
     ac \in {Absent, RStr("delete")} \cup {RStr(x) : x \in ExpenseActions},
     n \in {Absent, RStr("Gas"), RNum(FromInt(7))},
     c \in {Absent, RNum(FromInt(5000)), RNum(FromHalves(1))},
     ty \in {Absent, RStr("Food")},
     id \in {Absent, RNull, RNum(FromInt(2))},
     tn \in {Absent, RStr("Food")}}

\* the tool names a client asks for
ToolNames == {"calculate", "expense_tracker", "weather"}

\* the handler objects the registry is driven with
HandlerPool == {Handler(cls, id) : cls \in HandlerClasses, id \in 1..MaxInstances}

\* the remote behaviours to consider for a call of handler h: only the
\* expense handler reaches the remote service, for another handler the
\* choice makes no difference and one behaviour stands for all
RemotesFor(h) ==
  IF h.cls = "ExpenseTrackerToolHandler" THEN Remotes
  ELSE {[kind |-> "error", exc |-> "ConnectError"]}

\* the remote behaviours to consider for a call_tool request
RemotesForCall(d, name) ==
  IF DictHas(d, name) THEN RemotesFor(DictGet(d, name))
  ELSE {[kind |-> "error", exc |-> "ConnectError"]}

\* the remote behaviour as far as a call consumed it
Consumed(http, remote) == IF Len(http) = 0 THEN None ELSE Some(remote)

----------------------------------------------------------------------------
(* The registry driven directly: any sequence of calls on one ToolRegistry *)

Idle == [op |-> "none"]

RegistryInit ==
  /\ handlers = <<>>
  /\ registered = <<>>
  /\ started = FALSE
  /\ alive = TRUE
  /\ hadError = FALSE
  /\ last = Idle

Register(h) ==
  LET r == register(handlers, h) IN
  /\ handlers' = r.handlers
  /\ registered' = IF r.ret.ok THEN Append(registered, h) ELSE registered
  /\ last' = [op |-> "register", handler |-> h, ret |-> r.ret]
  /\ UNCHANGED <<started, alive, hadError>>

GetHandler(name) ==
  /\ last' = [op |-> "get_handler", name |-> name, ret |-> get_handler(handlers, name)]
  /\ handlers' = handlers_after_get_handler(handlers, name)
  /\ UNCHANGED <<registered, started, alive, hadError>>

GetAllTools ==
  /\ last' = [op |-> "get_all_tools", ret |-> get_all_tools(handlers)]
  /\ handlers' = handlers_after_get_all_tools(handlers)
  /\ UNCHANGED <<registered, started, alive, hadError>>

ListToolNames ==
  /\ last' = [op |-> "list_tool_names", ret |-> Ok(list_tool_names(handlers))]
  /\ UNCHANGED <<handlers, registered, started, alive, hadError>>

RegistryNext ==
  \/ \E h \in HandlerPool : Register(h)
  \/ \E name \in ToolNames : GetHandler(name)
  \/ GetAllTools
  \/ ListToolNames

RegistrySpec == RegistryInit /\ [][RegistryNext]_vars

----------------------------------------------------------------------------
(* A handler's execute applied to one arguments mapping *)

HandlerInit ==
  /\ handlers = <<>>
  /\ registered = <<>>
  /\ started = FALSE
  /\ alive = TRUE
  /\ hadError = FALSE
  /\ \E cls \in HandlerClasses :
       \E arguments \in (IF cls = "CalculatorToolHandler" THEN CalculatorArgs ELSE ExpenseArgs) :
         last = [op |-> "pending", handler |-> Handler(cls, 1), arguments |-> arguments]

Execute(remote) ==
  /\ last.op = "pending"
  /\ \E r \in {execute(last.handler, last.arguments, remote)} :
       last' = [op |-> "execute", handler |-> last.handler, arguments |-> last.arguments,
                ret |-> r.ret, ended |-> r.ended, calls |-> r.calls, http |-> r.http,
                remote |-> Consumed(r.http, remote)]
  /\ UNCHANGED <<handlers, registered, started, alive, hadError>>

HandlerNext == \E remote \in RemotesFor(last.handler) : Execute(remote)

HandlerSpec == HandlerInit /\ [][HandlerNext]_vars

----------------------------------------------------------------------------
(* A handler's execute followed statement by statement: the input model is *)
(* built, the service is called, the response is formatted; `last` holds   *)
(* the position of the call                                                *)

\* input_data = CalculatorInput(**arguments) / ExpenseTrackerInput(**arguments)
input_model(h, arguments) ==
  IF h.cls = "CalculatorToolHandler" THEN CalculatorInput(arguments)
  ELSE ExpenseTrackerInput(arguments)

\* the except clauses of the handler's execute
handler_except(h, exc) ==
  IF h.cls = "CalculatorToolHandler" THEN calculator_except(exc) ELSE expense_except(exc)

\* the call after a failed validation taken on as if the service had raised
validating_through_service(h, arguments) ==
  LET next(input_data) ==
        IF ~input_data.ok
        THEN [op |-> "executed", result |-> input_data, calls |-> <<>>, http |-> <<>>,
              remote |-> None]
        ELSE [op |-> "validated", input_data |-> input_data.val]
  IN next(input_model(h, arguments))

\* the first statement of the try block: a ValidationError goes to the
\* except clauses and the call returns, otherwise the call goes on with the
\* input model
validating(h, arguments) ==
  LET next(input_data) ==
        IF ~input_data.ok
        THEN [op |-> "execute", ret |-> handler_except(h, input_data),
              ended |-> input_data.type, calls |-> <<>>, http |-> <<>>, remote |-> None]
        ELSE [op |-> "validated", input_data |-> input_data.val]
  IN next(input_model(h, arguments))

\* result = self.service.calculate(input_data) / handle_action(input_data)
executing(h, input_data, remote) ==
  LET next(result, calls) ==
        [op |-> "executed", result |-> result.ret, calls |-> calls, http |-> result.http,
         remote |-> Consumed(result.http, remote)]
  IN IF h.cls = "CalculatorToolHandler"
     THEN next(calculate(input_data) @@ [http |-> <<>>],
               <<"calculate", "_" \o input_data.operation>>)
     ELSE next(handle_action(input_data, remote),
               <<"handle_action", "_" \o input_data.action>>)

\* the rest of execute: the formatted result is returned, or the exception
\* of the service goes to the except clauses
formatting(h, result) ==
  IF ~result.ok
  THEN [op |-> "execute", ret |-> handler_except(h, result), ended |-> result.type]
  ELSE [op |-> "execute",
        ret |-> Ok(<<TextContent(IF h.cls = "CalculatorToolHandler"
                                 THEN calculator_format_response(result.val)
                                 ELSE expense_format_response(result.val))>>),
        ended |-> "returned"]

\* the calls the handlers are given, and the three statements tabulated over
\* them: the input models the calls validate to, the service calls made with
\* them, the results the services give
HandlerCalls ==
  UNION {{[handler |-> Handler(cls, 1), arguments |-> arguments] :
            arguments \in (IF cls = "CalculatorToolHandler" THEN CalculatorArgs
                           ELSE ExpenseArgs)} : cls \in HandlerClasses}

validating_of == [c \in HandlerCalls |-> validating(c.handler, c.arguments)]

\* the call in progress
Call_of(position) == [handler |-> position.handler, arguments |-> position.arguments]

ServiceCalls ==
  UNION {{[handler |-> c.handler, input_data |-> validating_of[c].input_data,
           remote |-> remote] : remote \in RemotesFor(c.handler)} :
         c \in {d \in HandlerCalls : validating_of[d].op = "validated"}}

executing_of == [c \in ServiceCalls |-> executing(c.handler, c.input_data, c.remote)]

ServiceResults ==
  {[handler |-> c.handler, result |-> executing_of[c].result] : c \in ServiceCalls}

formatting_of == [c \in ServiceResults |-> formatting(c.handler, c.result)]

Validate ==
  /\ last.op = "pending"
  /\ last' = Call_of(last) @@ validating_of[Call_of(last)]
  /\ UNCHANGED <<handlers, registered, started, alive, hadError>>

CallService(remote) ==
  /\ last.op = "validated"
  /\ last' = Call_of(last)
               @@ executing_of[[handler |-> last.handler, input_data |-> last.input_data,
                                remote |-> remote]]
  /\ UNCHANGED <<handlers, registered, started, alive, hadError>>

Format ==
  /\ last.op = "executed"
  /\ last' = Call_of(last)
               @@ formatting_of[[handler |-> last.handler, result |-> last.result]]
               @@ [calls |-> last.calls, http |-> last.http, remote |-> last.remote]
  /\ UNCHANGED <<handlers, registered, started, alive, hadError>>

StepNext ==
  \/ Validate
  \/ \E remote \in RemotesFor(last.handler) : CallService(remote)
  \/ Format

\* execute is a coroutine the event loop runs to its return, and the service
\* call in it is synchronous: a call that was received goes on to its end
FairHandlerSpec == HandlerInit /\ [][StepNext]_vars /\ WF_vars(StepNext)

----------------------------------------------------------------------------
(* The server: main.setup_tools, then list_tools and call_tool requests, one *)
(* at a time                                                                *)

Init ==
  /\ handlers = <<>>
  /\ registered = <<>>
  /\ started = FALSE
  /\ alive = TRUE
  /\ hadError = FALSE
  /\ last = Idle

\* main.setup_tools: a new registry, the registrations, the two callbacks
SetupTools ==
  /\ ~started
  /\ LET r == register_all(<<>>, SetupHandlers) IN
     /\ handlers' = r.handlers
     /\ registered' = DictValues(r.handlers)
     /\ started' = r.ret.ok
     /\ alive' = r.ret.ok
     /\ last' = [op |-> "setup_tools", ret |-> r.ret]
  /\ UNCHANGED hadError

\* the server is up and no request is being served
Ready == started /\ alive /\ last.op \in {"none", "setup_tools"}

\* the list_tools callback
ListTools ==
  /\ Ready
  /\ last' = [op |-> "list_tools", ret |-> list_tools(handlers)]
  /\ handlers' = handlers_after_get_all_tools(handlers)
  /\ UNCHANGED <<registered, started, alive, hadError>>

\* the call_tool callback
CallTool(name, arguments, remote) ==
  /\ Ready
  /\ \E r \in {call_tool(handlers, name, arguments, remote)} :
       /\ last' = [op |-> "call_tool", name |-> name, arguments |-> arguments,
                   ret |-> r.ret, handler |-> r.handler, ended |-> r.ended,
                   calls |-> r.calls, http |-> r.http, remote |-> Consumed(r.http, remote)]
       /\ alive' = r.ret.ok
       /\ hadError' = (hadError \/ r.ended # "returned")
  /\ handlers' = handlers_after_get_handler(handlers, name)
  /\ UNCHANGED <<registered, started>>

\* the transport sends the result of the callback to the client; the server
\* then waits for the next request
Respond ==
  /\ last.op \in {"list_tools", "call_tool"}
  /\ last' = Idle
  /\ UNCHANGED <<handlers, registered, started, alive, hadError>>

Next ==
  \/ SetupTools
  \/ ListTools
  \/ /\ Ready
     /\ \E name \in ToolNames, arguments \in CalculatorArgs \cup ExpenseArgs :
          \E remote \in RemotesForCall(handlers, name) : CallTool(name, arguments, remote)
  \/ Respond

Spec == Init /\ [][Next]_vars

----------------------------------------------------------------------------
(* The expense service alone: its construction, then handle_action calls   *)

\* what ssm.get_parameter meets: the parameter, a ClientError (the parameter
\* is not there, access is denied), or an exception of botocore that is not
\* a ClientError (no credentials)
SsmOutcomes == {"Parameter", "ClientError", "NoCredentialsError"}

\* the process environment: the parameter store and the BASE_URL variable
Environments == [ssm : SsmOutcomes, env : {None, Some("http://env")}]

\* get_base_url: only a ClientError falls back to os.getenv, which gives
\* None for a variable that is not set
get_base_url(environment) ==
  IF environment.ssm = "Parameter" THEN Ok(Some("http://ssm"))
  ELSE IF environment.ssm = "ClientError" THEN Ok(environment.env)
  ELSE Raise(environment.ssm, <<"Unable to locate credentials">>)

\* ExpenseTrackerService.__init__: the service object, or what it raises
ExpenseTrackerService(environment) ==
  LET made(url) == IF url.ok THEN Ok([BASE_URL |-> url.val]) ELSE url
  IN made(get_base_url(environment))

\* what a request of this service can meet: the URL f"{None}/expenses" has
\* no protocol, and httpx refuses it before anything is sent
RemotesOf(service) ==
  IF service.BASE_URL = None THEN {[kind |-> "error", exc |-> "UnsupportedProtocol"]}
  ELSE Remotes

\* a call returns unless the remote service stays silent and a request was
\* made without a timeout
Completes(http, remote) ==
  (remote.kind = "error" /\ remote.exc = "ReadTimeout")
    => \A i \in 1..Len(http) : http[i].timeout # None

\* the instances of ExpenseTrackerInput the handler passes on
ServiceInputs ==
  {ExpenseTrackerInput(arguments).val :
     arguments \in {a \in ExpenseArgs : ExpenseTrackerInput(a).ok}}

ServiceInit ==
  /\ handlers = <<>>
  /\ registered = <<>>
  /\ started = FALSE
  /\ alive = TRUE
  /\ hadError = FALSE
  /\ last = Idle

\* ExpenseTrackerService()
Construct(environment) ==
  /\ last.op = "none"
  /\ last' = [op |-> "construct", environment |-> environment,
              ret |-> ExpenseTrackerService(environment)]
  /\ UNCHANGED <<handlers, registered, started, alive, hadError>>

\* a caller enters handle_action; the remote behaviour the call will meet
\* is fixed from here on
Call(input_data, remote) ==
  /\ last.op = "construct"
  /\ last.ret.ok
  /\ remote \in RemotesOf(last.ret.val)
  /\ last' = [op |-> "pending", service |-> last.ret.val, environment |-> last.environment,
              input_data |-> input_data, remote |-> remote]
  /\ UNCHANGED <<handlers, registered, started, alive, hadError>>

\* handle_action returns or raises
HandleAction ==
  /\ last.op = "pending"
  /\ \E r \in {handle_action(last.input_data, last.remote)} :
       /\ Completes(r.http, last.remote)
       /\ last' = [op |-> "handle_action", service |-> last.service,
                   environment |-> last.environment, input_data |-> last.input_data,
                   remote |-> last.remote, ret |-> r.ret, http |-> r.http]
  /\ UNCHANGED <<handlers, registered, started, alive, hadError>>

ServiceNext ==
  \/ \E environment \in Environments : Construct(environment)
  \/ /\ last.op = "construct"
     /\ \E input_data \in ServiceInputs, remote \in Remotes : Call(input_data, remote)
  \/ HandleAction

ServiceSpec == ServiceInit /\ [][ServiceNext]_vars

\* the scheduler runs a call that can go on
FairServiceSpec == ServiceSpec /\ WF_vars(HandleAction)

----------------------------------------------------------------------------
(* handlers/tool_handler.py: perform_calculation applied to one request    *)

\* float('inf')
Inf == [k |-> "inf", neg |-> FALSE]

\* the keys of the operations dict
LegacyOperations == {"add", "subtract", "multiply", "divide"}

\* perform_calculation whose divide has no test of the divisor
perform_calculation_unguarded(operation, a, b) ==
  CASE operation = "add" -> Ok(FAdd(a, b))
    [] operation = "subtract" -> Ok(FSub(a, b))
    [] operation = "multiply" -> Ok(FMul(a, b))
    [] operation = "divide" ->
         IF ~IsZero(b) THEN Ok(FDiv(a, b))
         ELSE Raise("ZeroDivisionError", <<"float division by zero">>)
    [] OTHER -> Raise("KeyError", <<operation>>)

\* perform_calculation whose subtract lambda takes its operands the other
\* way round
perform_calculation_swapped(operation, a, b) ==
  CASE operation = "add" -> Ok(FAdd(a, b))
    [] operation = "subtract" -> Ok(FSub(b, a))
    [] operation = "multiply" -> Ok(FMul(a, b))
    [] operation = "divide" -> Ok(IF ~IsZero(b) THEN FDiv(a, b) ELSE Inf)
    [] OTHER -> Raise("KeyError", <<operation>>)

\* perform_calculation: operations[operation](a, b); a name that is not a
\* key of the dict raises KeyError
perform_calculation(operation, a, b) ==
  CASE operation = "add" -> Ok(FAdd(a, b))
    [] operation = "subtract" -> Ok(FSub(a, b))
    [] operation = "multiply" -> Ok(FMul(a, b))
    [] operation = "divide" -> Ok(IF ~IsZero(b) THEN FDiv(a, b) ELSE Inf)
    [] OTHER -> Raise("KeyError", <<operation>>)

\* the operands the function is applied to: integers, a half, and the
\* negative zero
OperandSamples ==
  {FromInt(i) : i \in {-3, 0, 2, 3, 4, 5, 10}} \cup {FromHalves(1), Float(TRUE, 0, 1)}

PerformInit ==
  /\ handlers = <<>>
  /\ registered = <<>>
  /\ started = FALSE
  /\ alive = TRUE
  /\ hadError = FALSE
  /\ \E operation \in LegacyOperations \cup {"power"}, a \in OperandSamples,
        b \in OperandSamples :
       last = [op |-> "pending", operation |-> operation, a |-> a, b |-> b]

Perform ==
  /\ last.op = "pending"
  /\ last' = [op |-> "perform_calculation", operation |-> last.operation,
              a |-> last.a, b |-> last.b,
              ret |-> perform_calculation(last.operation, last.a, last.b)]
  /\ UNCHANGED <<handlers, registered, started, alive, hadError>>

PerformNext == Perform

PerformSpec == PerformInit /\ [][PerformNext]_vars

----------------------------------------------------------------------------
(* Properties *)

\* C1: after any sequence of register calls, get_handler(name) returns, for
\* every handler whose registration succeeded, exactly that handler; and a
\* get_handler call for such a name returned it.
C1_RegisteredResolves ==
  /\ \A i \in 1..Len(registered) :
       get_handler(handlers, get_name(registered[i])) = Ok(registered[i])
  /\ \A i \in 1..Len(registered) :
       (last.op = "get_handler" /\ last.name = get_name(registered[i]))
         => last.ret = Ok(registered[i])

\* a registered name was resolved with two names in the registry
C1_Witness ==
  /\ last.op = "get_handler"
  /\ last.ret.ok
  /\ Len(registered) = 2
  /\ last.ret.val = registered[2]

\* C2: get_handler for a name that is not registered raises an error whose
\* message carries the requested name and lists exactly the registered names,
\* each once; call_tool turns it into one error text with the same list.
C2_UnknownToolListsNames ==
  (last.op = "get_handler" /\ \A i \in 1..Len(registered) : get_name(registered[i]) # last.name)
    => LET msg == last.ret.msg
           listed == [i \in 1..((Len(msg) - 2) \div 2) |-> msg[2 + 2 * i]]
           blocks == call_tool(handlers, last.name, <<>>, [kind |-> "error", exc |-> "ConnectError"]).ret
       IN /\ ~last.ret.ok
          /\ last.ret.type = "ValueError"
          /\ msg[2] = last.name
          /\ Len(msg) = 3 + (IF Len(registered) = 0 THEN 0 ELSE 2 * Len(registered) - 1)
          /\ listed = [i \in 1..Len(registered) |-> get_name(registered[i])]
          /\ blocks = Ok(<<TextContent(<<"[x] Error: ">> \o msg)>>)

\* an unknown name was asked for with both tools registered
C2_Witness ==
  /\ last.op = "get_handler"
  /\ ~last.ret.ok
  /\ Len(registered) = 2

\* C3: a register call for a name already present raises, and leaves the
\* registry as it was: the same dict, the first handler still resolved, the
\* same definitions.
C3_DuplicateRejected ==
  [][(last'.op = "register" /\ DictHas(handlers, get_name(last'.handler)))
       => LET name == get_name(last'.handler)
              first == registered[CHOOSE i \in 1..Len(registered) :
                                    /\ get_name(registered[i]) = name
                                    /\ \A j \in 1..(i - 1) : get_name(registered[j]) # name]
          IN /\ ~last'.ret.ok
             /\ last'.ret.type = "ValueError"
             /\ handlers' = handlers
             /\ registered' = registered
             /\ get_handler(handlers', name) = Ok(first)
             /\ get_all_tools(handlers') = get_all_tools(handlers)]_vars

\* a second handler of a registered name was refused
C3_Witness ==
  /\ last.op = "register"
  /\ ~last.ret.ok
  /\ \E i \in 1..Len(registered) :
       get_name(registered[i]) = get_name(last.handler) /\ registered[i] # last.handler

\* C4: get_all_tools returns normally, with one definition per registered
\* handler in registration order (none for an empty registry), and two calls
\* in a row return the same sequence.
C4_DefinitionsInOrder ==
  /\ [](last.op = "get_all_tools"
          => /\ last.ret.ok
             /\ last.ret.val = [i \in 1..Len(registered) |-> get_tool_definition(registered[i])])
  /\ [][(last.op = "get_all_tools" /\ last'.op = "get_all_tools") => last'.ret = last.ret]_vars

\* the definitions of two handlers were listed
C4_Witness ==
  /\ last.op = "get_all_tools"
  /\ Len(last.ret.val) = 2
  /\ last.ret.val[1].name # last.ret.val[2].name

\* C5: once the server has started, list_tools returns a definition of the
\* calculator tool and one of the expense-tracker tool, and a call_tool
\* request naming either is dispatched to the handler of that name.
C5_BothToolsExposed ==
  /\ last.op = "list_tools"
       => {"calculate", "expense_tracker"}
            \subseteq {last.ret.val[i].name : i \in 1..Len(last.ret.val)}
  /\ (last.op = "call_tool" /\ last.name \in {"calculate", "expense_tracker"})
       => (last.handler # None /\ get_name(last.handler.v) = last.name)

\* C6: execute of either handler, on any arguments mapping, returns a
\* non-empty list of text blocks and raises nothing.
C6_ExecuteAlwaysReturnsText ==
  last.op = "execute"
    => /\ last.ret.ok
       /\ Len(last.ret.val) >= 1
       /\ \A i \in 1..Len(last.ret.val) :
            last.ret.val[i].type = "text" /\ Len(last.ret.val[i].text) >= 1

\* an execute whose service raised an exception that is not a ValueError
C6_Witness ==
  /\ last.op = "execute"
  /\ last.ret.ok
  /\ last.ended \notin ValueErrorClasses \cup {"returned"}

\* C7: call_tool returns a list of text blocks for every tool name and every
\* arguments mapping, no exception escapes it, and the server goes on serving
\* requests after a call that failed.
C7_CallToolNeverRaises ==
  /\ started => alive
  /\ last.op = "call_tool"
       => /\ last.ret.ok
          /\ Len(last.ret.val) >= 1
          /\ \A i \in 1..Len(last.ret.val) : last.ret.val[i].type = "text"
  /\ (started /\ last.op = "none") => Ready

\* a call was served after a call of an unknown tool had been answered
C7_Witness ==
  /\ hadError
  /\ last.op = "call_tool"
  /\ last.handler = None
  /\ last.ended = "ValueError"

\* C8: a calculate request for divide or modulo whose b is zero fails
\* validation whatever a and precision are: no service method is entered and
\* the caller gets one validation-error text.
C8_ZeroDivisorRejected ==
  (/\ last.op = "call_tool"
   /\ last.name = "calculate"
   /\ validate_operation(last.arguments).ok
   /\ validate_operation(last.arguments).val \in {"divide", "modulo"}
   /\ validate_float(last.arguments, "b").ok
   /\ IsZero(validate_float(last.arguments, "b").val))
    => /\ last.calls = <<>>
       /\ last.ended = "ValidationError"
       /\ last.ret.ok
       /\ Len(last.ret.val) = 1
       /\ last.ret.val[1].text[1] = "[x] Validation Error: "

\* a modulo by zero with valid a and precision was refused
C8_Witness ==
  /\ last.op = "call_tool"
  /\ last.name = "calculate"
  /\ DOMAIN last.arguments = CalculatorFields
  /\ last.arguments["operation"] = RStr("modulo")
  /\ last.arguments["a"] = RNum(FromInt(1000))
  /\ last.arguments["b"] = RNum(FromInt(0))
  /\ last.arguments["precision"] = RNum(FromInt(10))
  /\ last.ended = "ValidationError"

\* C9: a calculate request for power fails validation when |a| > 1000 or
\* |b| > 1000, and the service's _power is not entered.
C9_PowerLimitsRejected ==
  (/\ last.op = "call_tool"
   /\ last.name = "calculate"
   /\ validate_operation(last.arguments).ok
   /\ validate_operation(last.arguments).val = "power"
   /\ \/ /\ validate_float(last.arguments, "a").ok
         /\ AbsGreater(validate_float(last.arguments, "a").val, 1000)
      \/ /\ validate_float(last.arguments, "b").ok
         /\ AbsGreater(validate_float(last.arguments, "b").val, 1000))
    => /\ last.ended = "ValidationError"
       /\ last.calls = <<>>
       /\ last.ret.val[1].text[1] = "[x] Validation Error: "

\* a power whose base alone is over the limit was refused
C9_Witness ==
  /\ last.op = "call_tool"
  /\ last.name = "calculate"
  /\ DOMAIN last.arguments = {"operation", "a", "b"}
  /\ last.arguments["operation"] = RStr("power")
  /\ last.arguments["a"] = RNum(FromInt(-1001))
  /\ last.arguments["b"] = RNum(FromInt(3))
  /\ last.ended = "ValidationError"

\* C10: a calculate request for power with |a| = 1000 and |b| = 1000 passes
\* validation and ends with a calculation result.
C10_PowerBoundarySucceeds ==
  (/\ last.op = "call_tool"
   /\ last.name = "calculate"
   /\ DOMAIN last.arguments = {"operation", "a", "b"}
   /\ last.arguments["operation"] = RStr("power")
   /\ last.arguments["a"] \in {RNum(FromInt(1000)), RNum(FromInt(-1000))}
   /\ last.arguments["b"] \in {RNum(FromInt(1000)), RNum(FromInt(-1000))})
    => /\ last.calls = <<"calculate", "_power">>
       /\ last.ended = "returned"
       /\ last.ret.val[1].text[1] = "[ok] Calculation Result:"

\* C11: a create_expense call with itemName, itemCost and itemType present
\* ends as the remote response says: status 200 or 201 gives success = TRUE
\* with the parsed body as data, another status gives success = FALSE with
\* the status code in the message, and a failure of the network gives
\* success = FALSE with a network-error message.
C11_CreateExpenseOutcome ==
  (/\ last.op = "handle_action"
   /\ last.input_data.action = "create_expense"
   /\ last.input_data.itemName # None
   /\ last.input_data.itemCost # None
   /\ last.input_data.itemType # None)
    => IF last.remote.kind = "response"
       THEN IF last.remote.status \in {200, 201}
            THEN /\ last.ret.ok
                 /\ last.ret.val.success
                 /\ last.ret.val.data # None
                 /\ last.ret.val.data.v.json = <<last.remote.body>>
            ELSE /\ last.ret.ok
                 /\ ~last.ret.val.success
                 /\ \E i \in 1..Len(last.ret.val.message) :
                      last.ret.val.message[i] = ToString(last.remote.status)
       ELSE last.remote.exc \in RequestErrors
              => /\ last.ret.ok
                 /\ ~last.ret.val.success
                 /\ last.ret.val.message[1] = "Network error: "

\* C12: handle_action returns an ExpenseTrackerOutput, and raises nothing,
\* for each action and every behaviour of the remote service.
C12_HandleActionNeverRaises ==
  last.op = "handle_action"
    => /\ last.ret.ok
       /\ DOMAIN last.ret.val = {"action", "success", "message", "data"}

\* C13: an expense request whose action has required fields (typeId for
\* get_expenses_by_type; itemName, itemCost and itemType for create_expense;
\* typeName for create_type) and that leaves one of them out ends in one
\* failure text, raises nothing, and sends no HTTP request.
C13_MissingFieldFailsBeforeRequest ==
  (/\ last.op = "execute"
   /\ last.handler.cls = "ExpenseTrackerToolHandler"
   /\ validate_action(last.arguments).ok
   /\ LET action == validate_action(last.arguments).val
          missing(f) == f \notin DOMAIN last.arguments \/ last.arguments[f].t = "null"
      IN \/ action = "get_expenses_by_type" /\ missing("typeId")
         \/ action = "create_expense"
              /\ (missing("itemName") \/ missing("itemCost") \/ missing("itemType"))
         \/ action = "create_type" /\ missing("typeName"))
    => /\ last.ret.ok
       /\ Len(last.ret.val) = 1
       /\ last.ret.val[1].text[1] \in {"[x]", "[x] Validation Error: "}
       /\ last.ended \in {"returned", "ValidationError"}
       /\ last.http = <<>>

\* a create_expense request with a name and a cost but no type was refused
\* by the service
C13_Witness ==
  /\ last.op = "execute"
  /\ last.handler.cls = "ExpenseTrackerToolHandler"
  /\ DOMAIN last.arguments = {"action", "itemName", "itemCost"}
  /\ last.arguments["action"] = RStr("create_expense")
  /\ last.arguments["itemCost"] = RNum(FromInt(5000))
  /\ last.calls = <<"handle_action", "_create_expense">>
  /\ last.ended = "returned"
  /\ last.http = <<>>

\* C14: when the base URL is resolved neither from the parameter store nor
\* from the environment variable, the construction of the expense service
\* fails; no service is constructed without a base URL, and no call is made
\* on one.
C14_UnresolvedUrlFailsAtStartup ==
  /\ (/\ last.op = "construct"
      /\ last.environment.ssm # "Parameter"
      /\ last.environment.env = None)
       => ~last.ret.ok
  /\ (last.op = "construct" /\ last.ret.ok) => last.ret.val.BASE_URL # None
  /\ last.op \in {"pending", "handle_action"} => last.service.BASE_URL # None

\* C15: a field that execute refuses a request for the lack of (in the
\* validation of the arguments or in the service it delegates to) is marked
\* required in the input schema of the handler's tool definition.
C15_SchemaMarksRequiredFields ==
  last.op = "execute"
    => LET schema == get_tool_definition(last.handler).inputSchema
           text == last.ret.val[1].text
           refused(f) ==
             /\ f \notin DOMAIN last.arguments
             /\ \/ \E i \in 1..(Len(text) - 1) : text[i] = f /\ text[i + 1] = "Field required"
                \/ \E i \in 1..Len(text) :
                     \/ /\ text[i] = "Missing required fields: itemName, itemCost, and itemType"
                        /\ f \in {"itemName", "itemCost", "itemType"}
                     \/ text[i] = "Missing required field: typeId" /\ f = "typeId"
                     \/ text[i] = "Missing required field: typeName" /\ f = "typeName"
       IN \A f \in schema.properties : refused(f) => f \in schema.required

C17_DivideByZeroIsInfinity ==
  (/\ last.op = "perform_calculation"
   /\ last.operation = "divide"
   /\ last.b.n = 0)
    => /\ last.ret.ok
       /\ last.ret.val.k = "inf"
       /\ ~last.ret.val.neg

\* a negative number was divided by zero
C17_Witness ==
  /\ last.op = "perform_calculation"
  /\ last.operation = "divide"
  /\ last.a = FromInt(-3)
  /\ last.b = FromInt(0)
  /\ last.ret.ok

\* C18: for b # 0, perform_calculation returns the sum for "add", the
\* difference for "subtract", the product for "multiply" and the quotient for
\* "divide": the result r, a fraction in lowest terms, satisfies the equation
\* of the operation over the rationals.
C18_ArithmeticOfOperands ==
  (/\ last.op = "perform_calculation"
   /\ last.operation \in {"add", "subtract", "multiply", "divide"}
   /\ last.b.n # 0)
    => LET a == last.a
           b == last.b
           r == last.ret.val
           num(x) == IF x.neg THEN 0 - x.n ELSE x.n
       IN /\ last.ret.ok
          /\ r.k = "rat"
          /\ r.d > 0
          /\ \A g \in 2..r.d : ~(r.n % g = 0 /\ r.d % g = 0)
          /\ CASE last.operation = "add" ->
                     num(r) * a.d * b.d = (num(a) * b.d + num(b) * a.d) * r.d
               [] last.operation = "subtract" ->
                     num(r) * a.d * b.d = (num(a) * b.d - num(b) * a.d) * r.d
               [] last.operation = "multiply" ->
                     num(r) * a.d * b.d = num(a) * num(b) * r.d
               [] last.operation = "divide" ->
                     num(r) * num(b) * a.d = num(a) * b.d * r.d

\* the subtraction of the repository's test: 5 - 3 is 2
C18_Witness ==
  /\ last.op = "perform_calculation"
  /\ last.operation = "subtract"
  /\ last.a = FromInt(5)
  /\ last.b = FromInt(3)
  /\ last.ret = Ok(FromInt(2))

\* C19: a handler call is at the service (Validated, Executing) only when
\* the validation of its arguments succeeded, and gets there from the
\* validation only; a call whose validation failed has entered no service
\* method and sent no request when it returns, and returns the Validation
\* Error text; a call whose validation succeeded enters the service; every
\* call that was received ends with one text block returned.
C19_CallStateMachine ==
  /\ [](last.op \in {"validated", "executed"}
          => input_model(last.handler, last.arguments).ok)
  /\ [][/\ last'.op = "validated" => last.op = "pending"
        /\ last'.op = "executed" => last.op = "validated"
        /\ last.op = "pending" =>
              (last'.op = "validated" <=> input_model(last.handler, last.arguments).ok)]_vars
  /\ [](last.op = "execute" =>
         LET machine(validated) ==
               /\ (last.calls # <<>> => validated)
               /\ (~validated =>
                     /\ last.calls = <<>>
                     /\ last.http = <<>>
                     /\ last.ended \in ValueErrorClasses
                     /\ last.ret.ok
                     /\ last.ret.val[1].text[1] = "[x] Validation Error: ")
               /\ (validated =>
                     /\ Len(last.calls) >= 1
                     /\ last.calls[1] \in {"calculate", "handle_action"}
                     /\ (last.ended # "returned" => last.ret.val[1].text[1] \in
                           {"[x] Validation Error: ", "[x] Error: Cannot divide by zero",
                            "[x] Internal Error: "}))
               /\ last.ret.ok
               /\ Len(last.ret.val) = 1
               /\ last.ret.val[1].type = "text"
         IN machine(input_model(last.handler, last.arguments).ok))
  /\ (last.op = "pending" ~> last.op = "execute")

\* a calculator call whose validation failed has returned the error text
C19_Witness ==
  /\ last.op = "execute"
  /\ last.handler.cls = "CalculatorToolHandler"
  /\ ~CalculatorInput(last.arguments).ok
  /\ last.calls = <<>>
  /\ last.ret.ok

\* C20: once setup_tools has returned, no step of the server (a list_tools
\* request, a call_tool request of any outcome, a response) changes the
\* registry; no step at all takes a name out of it; and the only step that
\* changes it is setup_tools, through its register calls.
C20_RegistryReadOnly ==
  [][/\ started => handlers' = handlers
     /\ \A i \in 1..Len(handlers) : DictHas(handlers', handlers[i].key)
     /\ handlers' # handlers => last'.op = "setup_tools"]_vars

\* the tools are listed after a call that failed, and the registry holds the
\* handler setup_tools registered
C20_Witness ==
  /\ started
  /\ hadError
  /\ last.op = "list_tools"
  /\ DictKeys(handlers) = <<"calculate">>

\* C21: call_tool returns the text of its own except clauses exactly when the
\* name is not in the registry (the ValueError of get_handler, returned as
\* "Error: Unknown tool ..."); for a registered name the handler's execute
\* raises nothing and call_tool returns the blocks execute returned.
C21_AdapterErrorOnlyForUnknownTool ==
  last.op = "call_tool" =>
    /\ last.handler = None <=> ~DictHas(handlers, last.name)
    /\ ~DictHas(handlers, last.name) =>
         /\ last.ended = "ValueError"
         /\ last.ret = Ok(<<TextContent(<<"[x] Error: ">>
                                           \o get_handler(handlers, last.name).msg)>>)
    /\ DictHas(handlers, last.name) =>
         /\ \E remote \in RemotesForCall(handlers, last.name) :
              \E r \in {execute(DictGet(handlers, last.name), last.arguments, remote)} :
                r.ret.ok /\ r.ret = last.ret /\ r.ended = last.ended
         /\ last.ret.val[1].text[1] # "[x] Error: "

\* a registered handler caught an exception of its service that is not a
\* ValueError, and call_tool returned the handler's text
C21_Witness ==
  /\ last.op = "call_tool"
  /\ last.handler # None
  /\ last.ended = "OverflowError"
  /\ last.ret.val[1].text[1] = "[x] Internal Error: "

\* C22: a power request that passes validation (|a| <= 1000, |b| <= 1000)
\* and that math.pow cannot compute (a zero base with a negative exponent, a
\* negative base with an exponent that is not an integer, a result beyond
\* the range of a float) enters _power and ends in one error text, never in
\* a result: the Validation Error text for the ValueError of the first two
\* cases, the Internal Error text for the OverflowError of the third.
C22_UncomputablePowerIsError ==
  (/\ last.op = "execute"
   /\ last.handler.cls = "CalculatorToolHandler"
   /\ CalculatorInput(last.arguments).ok
   /\ validate_operation(last.arguments).val = "power")
    => LET case(a, b) ==
             LET domain == \/ a.n = 0 /\ b.neg /\ b.n # 0
                           \/ a.neg /\ a.n # 0 /\ b.d # 1
                 overflow == ~domain /\ ~math_pow(a, b).ok
             IN /\ (domain \/ overflow) =>
                     /\ last.calls = <<"calculate", "_power">>
                     /\ last.ended # "returned"
                     /\ last.ret.ok
                     /\ Len(last.ret.val) = 1
                     /\ last.ret.val[1].type = "text"
                     /\ last.ret.val[1].text[1] # "[ok] Calculation Result:"
                /\ domain =>
                     /\ last.ended = "ValueError"
                     /\ last.ret.val[1].text
                          = <<"[x] Validation Error: ", "math domain error">>
                /\ overflow =>
                     /\ last.ended = "OverflowError"
                     /\ last.ret.val[1].text
                          = <<"[x] Internal Error: ", "math range error">>
       IN case(validate_float(last.arguments, "a").val,
               validate_float(last.arguments, "b").val)

\* the square root of -2 was asked for and refused by math.pow
C22_Witness ==
  /\ last.op = "execute"
  /\ last.handler.cls = "CalculatorToolHandler"
  /\ DOMAIN last.arguments = {"operation", "a", "b"}
  /\ last.arguments["operation"] = RStr("power")
  /\ last.arguments["a"] = RNum(FromInt(-2))
  /\ last.arguments["b"] = RNum(FromHalves(1))
  /\ last.ended = "ValueError"
  /\ last.calls = <<"calculate", "_power">>

====
